---- MODULE Spec2Model ----
(***************************************************************************)
(* Model of the sator-anchor program: one IncidentAnchor account per       *)
(* incident id, and the four instructions create_anchor, append_event,     *)
(* update_artifacts and approve_anchor.                                    *)
(*                                                                         *)
(* Hash values are finite sequences of integers in prefix form: an input   *)
(* hash is <<k>> with k >= 0, and the digest of a concatenation of hash    *)
(* values is the concatenation put between the markers -1 and -2.  The     *)
(* digest is thus modelled as collision free, and never as the identity.   *)
(*                                                                         *)
(* Each instruction handler works on the deserialized, in-memory copy of   *)
(* the account and returns that copy together with its result; the runtime *)
(* persists the copy only when the instruction returns Ok.                 *)
(***************************************************************************)
EXTENDS Integers, Sequences, FiniteSets, TLC

VARIABLES anchors, clock, emitted, last, chain_log

vars == <<anchors, clock, emitted, last, chain_log>>

(* ------------------------------ bounds --------------------------------- *)

\* successful append_event / update_artifacts instructions per account in Spec
MaxEvents == 2

\* the clock sysvar runs over 0 .. MaxClock
MaxClock == 1

\* distance below u32::MAX at which the accounts of InitNearMax start
NearMaxSlack == 1

(* ------------------------- program constants --------------------------- *)

\* the bound taken one too large
MAX_URI_LEN_off_by_one == 200 + 1

MAX_URI_LEN == 200

\* A u32 is kept as two 16-bit limbs <<hi, lo>>, of value hi * LIMB + lo
LIMB == 65536

U32_MAX == <<LIMB - 1, LIMB - 1>>

u32(n) == <<n \div LIMB, n % LIMB>>

u32_lt(a, b) == a[1] < b[1] \/ (a[1] = b[1] /\ a[2] < b[2])

Employee == 0

(* ------------------------------ inputs --------------------------------- *)

IncidentIds == {7}

Keys == {"opA", "opB"}

\* The keys are interchangeable; the accounts are created by the first.
Creators == {"opA"}

\* u8 role values passed to create_anchor: the three enumerants and one more
RoleInputs == {0, 1, 2, 3}

RECURSIVE Repeat(_, _)
Repeat(c, n) == IF n = 0 THEN ""
                ELSE IF n % 2 = 0 THEN LET half == Repeat(c, n \div 2) IN half \o half
                ELSE c \o Repeat(c, n - 1)

\* packet URIs for create_anchor: one of exactly MAX_URI_LEN and one longer
UriInputs == {Repeat("u", MAX_URI_LEN), Repeat("v", MAX_URI_LEN + 1)}

ZeroHash == <<0>>

\* the six artefact hashes passed to create_anchor, in parameter order
CreateHashInputs == { <<(<<1>>), (<<2>>), (<<3>>), (<<4>>), (<<5>>), (<<6>>)>> }

InitialEventHashInputs == { <<9>> }

EventHashInputs == { <<10>> }

ChangeEventHashInputs == { <<12>> }

None == << >>

Some(v) == <<v>>

\* the Option parameters of update_artifacts: position i is Some(h) for i in S
Supplied(S, h) == [i \in 1..6 |-> IF i \in S THEN Some(h) ELSE None]

\* payloads of update_artifacts: nothing supplied, the evidence hash alone,
\* six different hashes with a new URI, and a URI longer than MAX_URI_LEN
UpdateInputs ==
    { [hs |-> Supplied({}, <<8>>),               packet_uri |-> None],
      [hs |-> Supplied({2}, <<8>>),              packet_uri |-> None],
      [hs |-> [i \in 1..6 |-> Some(<<20 + i>>)], packet_uri |-> Some("ipfs://q")],
      [hs |-> Supplied({2}, <<8>>),
       packet_uri |-> Some(Repeat("w", MAX_URI_LEN + 1))] }

(* --------------------------- hashing protocol -------------------------- *)

RECURSIVE Concat(_)
Concat(blocks) == IF blocks = << >> THEN << >>
                  ELSE Head(blocks) \o Concat(Tail(blocks))

\* solana_program::hash::hash over the concatenated blocks
Digest(blocks) == <<-1>> \o Concat(blocks) \o <<-2>>

\* the six hashes with the first two exchanged
compute_bundle_root_reordered(a) ==
    Digest(<< a.evidence_set_hash,
              a.incident_core_hash,
              a.contradictions_hash,
              a.trust_receipt_hash,
              a.operator_decisions_hash,
              a.timeline_hash >>)

compute_bundle_root(a) ==
    Digest(<< a.incident_core_hash,
              a.evidence_set_hash,
              a.contradictions_hash,
              a.trust_receipt_hash,
              a.operator_decisions_hash,
              a.timeline_hash >>)

\* the head left where it was
compute_new_event_head_stale(a, event_hash) ==
    a.event_chain_head

\* the event hash put before the previous head
compute_new_event_head_swapped(a, event_hash) ==
    Digest(<< event_hash, a.event_chain_head >>)

compute_new_event_head(a, event_hash) ==
    Digest(<< a.event_chain_head, event_hash >>)

\* u32::wrapping_add(1)
wrapping_add_1(n) ==
    IF n = U32_MAX THEN Some(<<0, 0>>)
    ELSE IF n[2] = LIMB - 1 THEN Some(<<n[1] + 1, 0>>)
    ELSE Some(<<n[1], n[2] + 1>>)

\* u32::checked_add(1): None on overflow
checked_add_1(n) ==
    IF n = U32_MAX THEN None
    ELSE IF n[2] = LIMB - 1 THEN Some(<<n[1] + 1, 0>>)
    ELSE Some(<<n[1], n[2] + 1>>)

(* ------------------------------ accounts ------------------------------- *)

HasAnchor(id) == anchors[id] # None

Anchor(id) == anchors[id][1]

\* the bump seed of the account's program derived address
Bump(id) == 255 - (id % 2)

HandlerResult(e, m, ev) == [err |-> e, mem |-> m, emit |-> ev]

(* ---------------------------- create_anchor ---------------------------- *)

\* supervisors taken to need approval as well
needs_approval_below_admin(operator_role) == operator_role < 2

\* operator_role == 0: employees need approval
needs_approval(operator_role) == operator_role = Employee

\* the first event hash folded into an empty head by a chain step
create_anchor_handler_stepped(operator, incident_id, hs, initial_event_hash, operator_role, packet_uri, now) ==
    IF ~(Len(packet_uri) <= MAX_URI_LEN)
    THEN HandlerResult("PacketUriTooLong", None, << >>)
    ELSE IF ~(operator_role <= 2)
    THEN HandlerResult("InvalidOperatorRole", None, << >>)
    ELSE LET a0 == [ operator                |-> operator,
                     incident_id             |-> incident_id,
                     incident_core_hash      |-> hs[1],
                     evidence_set_hash       |-> hs[2],
                     contradictions_hash     |-> hs[3],
                     trust_receipt_hash      |-> hs[4],
                     operator_decisions_hash |-> hs[5],
                     timeline_hash           |-> hs[6],
                     bundle_root_hash        |-> ZeroHash,
                     event_chain_head        |-> Digest(<<ZeroHash, initial_event_hash>>),
                     event_count             |-> u32(1),
                     operator_role           |-> operator_role,
                     supervisor              |-> None,
                     requires_approval       |-> needs_approval(operator_role),
                     approval_timestamp      |-> None,
                     packet_uri              |-> packet_uri,
                     created_at              |-> now,
                     updated_at              |-> now,
                     bump                    |-> Bump(incident_id) ]
             a1 == [a0 EXCEPT !.bundle_root_hash = compute_bundle_root(a0)]
         IN  HandlerResult("Ok", Some(a1),
                 << [ type             |-> "AnchorCreated",
                      incident_id      |-> incident_id,
                      operator         |-> operator,
                      operator_role    |-> operator_role,
                      bundle_root_hash |-> a1.bundle_root_hash,
                      packet_uri       |-> packet_uri,
                      timestamp        |-> now ] >>)

\* the role check off by one: operator_role <= 3
create_anchor_handler_role3(operator, incident_id, hs, initial_event_hash, operator_role, packet_uri, now) ==
    IF ~(Len(packet_uri) <= MAX_URI_LEN)
    THEN HandlerResult("PacketUriTooLong", None, << >>)
    ELSE IF ~(operator_role <= 3)
    THEN HandlerResult("InvalidOperatorRole", None, << >>)
    ELSE LET a0 == [ operator                |-> operator,
                     incident_id             |-> incident_id,
                     incident_core_hash      |-> hs[1],
                     evidence_set_hash       |-> hs[2],
                     contradictions_hash     |-> hs[3],
                     trust_receipt_hash      |-> hs[4],
                     operator_decisions_hash |-> hs[5],
                     timeline_hash           |-> hs[6],
                     bundle_root_hash        |-> ZeroHash,
                     event_chain_head        |-> initial_event_hash,
                     event_count             |-> u32(1),
                     operator_role           |-> operator_role,
                     supervisor              |-> None,
                     requires_approval       |-> needs_approval(operator_role),
                     approval_timestamp      |-> None,
                     packet_uri              |-> packet_uri,
                     created_at              |-> now,
                     updated_at              |-> now,
                     bump                    |-> Bump(incident_id) ]
             a1 == [a0 EXCEPT !.bundle_root_hash = compute_bundle_root(a0)]
         IN  HandlerResult("Ok", Some(a1),
                 << [ type             |-> "AnchorCreated",
                      incident_id      |-> incident_id,
                      operator         |-> operator,
                      operator_role    |-> operator_role,
                      bundle_root_hash |-> a1.bundle_root_hash,
                      packet_uri       |-> packet_uri,
                      timestamp        |-> now ] >>)

create_anchor_handler(operator, incident_id, hs, initial_event_hash, operator_role, packet_uri, now) ==
    IF ~(Len(packet_uri) <= MAX_URI_LEN)
    THEN HandlerResult("PacketUriTooLong", None, << >>)
    ELSE IF ~(operator_role <= 2)
    THEN HandlerResult("InvalidOperatorRole", None, << >>)
    ELSE LET a0 == [ operator                |-> operator,
                     incident_id             |-> incident_id,
                     incident_core_hash      |-> hs[1],
                     evidence_set_hash       |-> hs[2],
                     contradictions_hash     |-> hs[3],
                     trust_receipt_hash      |-> hs[4],
                     operator_decisions_hash |-> hs[5],
                     timeline_hash           |-> hs[6],
                     bundle_root_hash        |-> ZeroHash,
                     event_chain_head        |-> initial_event_hash,
                     event_count             |-> u32(1),
                     operator_role           |-> operator_role,
                     supervisor              |-> None,
                     requires_approval       |-> needs_approval(operator_role),
                     approval_timestamp      |-> None,
                     packet_uri              |-> packet_uri,
                     created_at              |-> now,
                     updated_at              |-> now,
                     bump                    |-> Bump(incident_id) ]
             a1 == [a0 EXCEPT !.bundle_root_hash = compute_bundle_root(a0)]
         IN  HandlerResult("Ok", Some(a1),
                 << [ type             |-> "AnchorCreated",
                      incident_id      |-> incident_id,
                      operator         |-> operator,
                      operator_role    |-> operator_role,
                      bundle_root_hash |-> a1.bundle_root_hash,
                      packet_uri       |-> packet_uri,
                      timestamp        |-> now ] >>)

(* ---------------------------- append_event ----------------------------- *)

append_event_handler(a, event_hash, now) ==
    LET new_head == compute_new_event_head(a, event_hash)
        a1 == [a EXCEPT !.event_chain_head = new_head]
        sum == checked_add_1(a1.event_count)
    IN  IF sum = None
        THEN HandlerResult("EventCountOverflow", Some(a1), << >>)
        ELSE LET a2 == [a1 EXCEPT !.event_count = sum[1]]
                 a3 == [a2 EXCEPT !.updated_at = now]
             IN  HandlerResult("Ok", Some(a3),
                     << [ type           |-> "EventAppended",
                          incident_id    |-> a3.incident_id,
                          event_hash     |-> event_hash,
                          new_chain_head |-> new_head,
                          event_count    |-> a3.event_count,
                          timestamp      |-> now ] >>)

(* --------------------------- update_artifacts -------------------------- *)

\* the supplied value never taken
OrKeep_stale(opt, old) == old

\* if let Some(hash) = opt { field = hash }
OrKeep(opt, old) == IF opt # None THEN opt[1] ELSE old

\* the old root read after the root was recomputed
update_artifacts_handler_late_old_root(a, operator, hs, change_event_hash, packet_uri, now) ==
    IF packet_uri # None /\ ~(Len(packet_uri[1]) <= MAX_URI_LEN)
    THEN HandlerResult("PacketUriTooLong", Some(a), << >>)
    ELSE LET old_bundle_root == a.bundle_root_hash
             a1 == [a EXCEPT
                      !.incident_core_hash      = OrKeep(hs[1], @),
                      !.evidence_set_hash       = OrKeep(hs[2], @),
                      !.contradictions_hash     = OrKeep(hs[3], @),
                      !.trust_receipt_hash      = OrKeep(hs[4], @),
                      !.operator_decisions_hash = OrKeep(hs[5], @),
                      !.timeline_hash           = OrKeep(hs[6], @),
                      !.packet_uri              = OrKeep(packet_uri, @)]
             a2 == [a1 EXCEPT !.bundle_root_hash = compute_bundle_root(a1)]
             new_head == compute_new_event_head(a2, change_event_hash)
             a3 == [a2 EXCEPT !.event_chain_head = new_head]
             sum == checked_add_1(a3.event_count)
         IN  IF sum = None
             THEN HandlerResult("EventCountOverflow", Some(a3), << >>)
             ELSE LET a4 == [a3 EXCEPT !.event_count = sum[1]]
                      a5 == [a4 EXCEPT !.updated_at = now]
                  IN  HandlerResult("Ok", Some(a5),
                          << [ type            |-> "ArtifactsUpdated",
                               incident_id     |-> a5.incident_id,
                               operator        |-> operator,
                               old_bundle_root |-> a5.bundle_root_hash,
                               new_bundle_root |-> a5.bundle_root_hash,
                               packet_uri      |-> a5.packet_uri,
                               timestamp       |-> now ] >>)

update_artifacts_handler(a, operator, hs, change_event_hash, packet_uri, now) ==
    IF packet_uri # None /\ ~(Len(packet_uri[1]) <= MAX_URI_LEN)
    THEN HandlerResult("PacketUriTooLong", Some(a), << >>)
    ELSE LET old_bundle_root == a.bundle_root_hash
             a1 == [a EXCEPT
                      !.incident_core_hash      = OrKeep(hs[1], @),
                      !.evidence_set_hash       = OrKeep(hs[2], @),
                      !.contradictions_hash     = OrKeep(hs[3], @),
                      !.trust_receipt_hash      = OrKeep(hs[4], @),
                      !.operator_decisions_hash = OrKeep(hs[5], @),
                      !.timeline_hash           = OrKeep(hs[6], @),
                      !.packet_uri              = OrKeep(packet_uri, @)]
             a2 == [a1 EXCEPT !.bundle_root_hash = compute_bundle_root(a1)]
             new_head == compute_new_event_head(a2, change_event_hash)
             a3 == [a2 EXCEPT !.event_chain_head = new_head]
             sum == checked_add_1(a3.event_count)
         IN  IF sum = None
             THEN HandlerResult("EventCountOverflow", Some(a3), << >>)
             ELSE LET a4 == [a3 EXCEPT !.event_count = sum[1]]
                      a5 == [a4 EXCEPT !.updated_at = now]
                  IN  HandlerResult("Ok", Some(a5),
                          << [ type            |-> "ArtifactsUpdated",
                               incident_id     |-> a5.incident_id,
                               operator        |-> operator,
                               old_bundle_root |-> old_bundle_root,
                               new_bundle_root |-> a5.bundle_root_hash,
                               packet_uri      |-> a5.packet_uri,
                               timestamp       |-> now ] >>)

(* ---------------------------- approve_anchor --------------------------- *)

\* the approval folded into the event chain head
approve_anchor_handler_stamping(a, approver, now) ==
    IF ~a.requires_approval
    THEN HandlerResult("AlreadyApproved", Some(a), << >>)
    ELSE LET a1 == [a EXCEPT !.supervisor         = Some(approver),
                             !.requires_approval  = FALSE,
                             !.approval_timestamp = Some(now),
                             !.event_chain_head   = Digest(<< @, ZeroHash >>),
                             !.updated_at         = now]
         IN  HandlerResult("Ok", Some(a1),
                 << [ type        |-> "AnchorApproved",
                      incident_id |-> a1.incident_id,
                      operator    |-> a1.operator,
                      supervisor  |-> approver,
                      timestamp   |-> now ] >>)

\* the approver written into the operator field
approve_anchor_handler_takeover(a, approver, now) ==
    IF ~a.requires_approval
    THEN HandlerResult("AlreadyApproved", Some(a), << >>)
    ELSE LET a1 == [a EXCEPT !.operator           = approver,
                             !.supervisor         = Some(approver),
                             !.requires_approval  = FALSE,
                             !.approval_timestamp = Some(now),
                             !.updated_at         = now]
         IN  HandlerResult("Ok", Some(a1),
                 << [ type        |-> "AnchorApproved",
                      incident_id |-> a1.incident_id,
                      operator    |-> a1.operator,
                      supervisor  |-> approver,
                      timestamp   |-> now ] >>)

\* the approval counted as an event of the chain
approve_anchor_handler_counting(a, approver, now) ==
    IF ~a.requires_approval
    THEN HandlerResult("AlreadyApproved", Some(a), << >>)
    ELSE LET a1 == [a EXCEPT !.supervisor         = Some(approver),
                             !.requires_approval  = FALSE,
                             !.approval_timestamp = Some(now),
                             !.event_count        = wrapping_add_1(@)[1],
                             !.updated_at         = now]
         IN  HandlerResult("Ok", Some(a1),
                 << [ type        |-> "AnchorApproved",
                      incident_id |-> a1.incident_id,
                      operator    |-> a1.operator,
                      supervisor  |-> approver,
                      timestamp   |-> now ] >>)

\* the account's operator recorded as the supervisor
approve_anchor_handler_self(a, approver, now) ==
    IF ~a.requires_approval
    THEN HandlerResult("AlreadyApproved", Some(a), << >>)
    ELSE LET a1 == [a EXCEPT !.supervisor         = Some(a.operator),
                             !.requires_approval  = FALSE,
                             !.approval_timestamp = Some(now),
                             !.updated_at         = now]
         IN  HandlerResult("Ok", Some(a1),
                 << [ type        |-> "AnchorApproved",
                      incident_id |-> a1.incident_id,
                      operator    |-> a1.operator,
                      supervisor  |-> approver,
                      timestamp   |-> now ] >>)

\* the require! on requires_approval left out
approve_anchor_handler_unchecked(a, approver, now) ==
    LET a1 == [a EXCEPT !.supervisor         = Some(approver),
                        !.requires_approval  = FALSE,
                        !.approval_timestamp = Some(now),
                        !.updated_at         = now]
    IN  HandlerResult("Ok", Some(a1),
            << [ type        |-> "AnchorApproved",
                 incident_id |-> a1.incident_id,
                 operator    |-> a1.operator,
                 supervisor  |-> approver,
                 timestamp   |-> now ] >>)

approve_anchor_handler(a, approver, now) ==
    IF ~a.requires_approval
    THEN HandlerResult("AlreadyApproved", Some(a), << >>)
    ELSE LET a1 == [a EXCEPT !.supervisor         = Some(approver),
                             !.requires_approval  = FALSE,
                             !.approval_timestamp = Some(now),
                             !.updated_at         = now]
         IN  HandlerResult("Ok", Some(a1),
                 << [ type        |-> "AnchorApproved",
                      incident_id |-> a1.incident_id,
                      operator    |-> a1.operator,
                      supervisor  |-> approver,
                      timestamp   |-> now ] >>)

(* ------------------- account validation and runtime -------------------- *)

\* #[account(init, seeds = [.., incident_id], bump)]: the system program
\* refuses to allocate an address that is already in use
create_anchor_accounts(id) ==
    IF HasAnchor(id) THEN "AccountAlreadyInUse" ELSE "Ok"

\* the owner held back while the account awaits approval
append_event_accounts_gated(id, operator) ==
    IF ~HasAnchor(id) THEN "AccountNotInitialized"
    ELSE IF Anchor(id).operator # operator THEN "Unauthorized"
    ELSE IF Anchor(id).requires_approval THEN "RequiresApproval"
    ELSE "Ok"

\* the has_one constraint left out
append_event_accounts_no_has_one(id, operator) ==
    IF ~HasAnchor(id) THEN "AccountNotInitialized" ELSE "Ok"

\* #[account(mut, seeds, bump, has_one = operator @ Unauthorized)]
append_event_accounts(id, operator) ==
    IF ~HasAnchor(id) THEN "AccountNotInitialized"
    ELSE IF Anchor(id).operator # operator THEN "Unauthorized"
    ELSE "Ok"

update_artifacts_accounts(id, operator) ==
    IF ~HasAnchor(id) THEN "AccountNotInitialized"
    ELSE IF Anchor(id).operator # operator THEN "Unauthorized"
    ELSE "Ok"

\* #[account(mut, seeds, bump)]: no has_one constraint on the approver
approve_anchor_accounts(id) ==
    IF ~HasAnchor(id) THEN "AccountNotInitialized" ELSE "Ok"

(* the four entry points of the program: account validation, then handler *)

create_anchor(operator, id, hs, initial_event_hash, operator_role, packet_uri, now) ==
    LET v == create_anchor_accounts(id)
    IN  IF v # "Ok" THEN HandlerResult(v, anchors[id], << >>)
        ELSE create_anchor_handler(operator, id, hs, initial_event_hash,
                                   operator_role, packet_uri, now)

append_event(operator, id, event_hash, now) ==
    LET v == append_event_accounts(id, operator)
    IN  IF v # "Ok" THEN HandlerResult(v, anchors[id], << >>)
        ELSE append_event_handler(Anchor(id), event_hash, now)

update_artifacts(operator, id, hs, change_event_hash, packet_uri, now) ==
    LET v == update_artifacts_accounts(id, operator)
    IN  IF v # "Ok" THEN HandlerResult(v, anchors[id], << >>)
        ELSE update_artifacts_handler(Anchor(id), operator, hs,
                                      change_event_hash, packet_uri, now)

approve_anchor(approver, id, now) ==
    LET v == approve_anchor_accounts(id)
    IN  IF v # "Ok" THEN HandlerResult(v, anchors[id], << >>)
        ELSE approve_anchor_handler(Anchor(id), approver, now)

\* the in-memory account written back whatever the result
Commit_no_rollback(op, signer, id, r) ==
    /\ anchors' = [anchors EXCEPT ![id] = r.mem]
    /\ emitted' = emitted \o r.emit
    /\ last' = [op |-> op, id |-> id, signer |-> signer, err |-> r.err, mem |-> r.mem]

\* The runtime writes the in-memory account back only when the instruction
\* returns Ok; the log lines of emit! are the ones the handler produced.
Commit(op, signer, id, r) ==
    /\ anchors' = IF r.err = "Ok" THEN [anchors EXCEPT ![id] = r.mem] ELSE anchors
    /\ emitted' = emitted \o r.emit
    /\ last' = [op |-> op, id |-> id, signer |-> signer, err |-> r.err, mem |-> r.mem]

(* ------------------------------ actions -------------------------------- *)

CreateAnchor ==
    \E operator \in Creators, id \in IncidentIds, hs \in CreateHashInputs,
       initial_event_hash \in InitialEventHashInputs, operator_role \in RoleInputs,
       packet_uri \in UriInputs :
        LET r == create_anchor(operator, id, hs, initial_event_hash,
                               operator_role, packet_uri, clock)
        IN  /\ Commit("create_anchor", operator, id, r)
            /\ chain_log' = IF r.err = "Ok"
                            THEN [chain_log EXCEPT ![id] = <<initial_event_hash>>]
                            ELSE chain_log
            /\ UNCHANGED clock

AppendEvent ==
    \E operator \in Keys, id \in IncidentIds, event_hash \in EventHashInputs :
        LET r == append_event(operator, id, event_hash, clock)
        IN  /\ r.err = "Ok" => Len(chain_log[id]) <= MaxEvents
            /\ Commit("append_event", operator, id, r)
            /\ chain_log' = IF r.err = "Ok"
                            THEN [chain_log EXCEPT ![id] = Append(@, event_hash)]
                            ELSE chain_log
            /\ UNCHANGED clock

UpdateArtifacts ==
    \E operator \in Keys, id \in IncidentIds, u \in UpdateInputs,
       change_event_hash \in ChangeEventHashInputs :
        LET r == update_artifacts(operator, id, u.hs, change_event_hash,
                                  u.packet_uri, clock)
        IN  /\ r.err = "Ok" => Len(chain_log[id]) <= MaxEvents
            /\ Commit("update_artifacts", operator, id, r)
            /\ chain_log' = IF r.err = "Ok"
                            THEN [chain_log EXCEPT ![id] = Append(@, change_event_hash)]
                            ELSE chain_log
            /\ UNCHANGED clock

ApproveAnchor ==
    \E approver \in Keys, id \in IncidentIds :
        LET r == approve_anchor(approver, id, clock)
        IN  /\ Commit("approve_anchor", approver, id, r)
            /\ UNCHANGED <<clock, chain_log>>

\* the clock sysvar advances between instructions
Tick ==
    /\ clock < MaxClock
    /\ clock' = clock + 1
    /\ UNCHANGED <<anchors, emitted, last, chain_log>>

NoCall == [op |-> "none", id |-> 0, signer |-> "", err |-> "Ok", mem |-> None]

Init ==
    /\ anchors = [id \in IncidentIds |-> None]
    /\ clock = 0
    /\ emitted = << >>
    /\ last = NoCall
    /\ chain_log = [id \in IncidentIds |-> << >>]

Next ==
    \/ CreateAnchor
    \/ AppendEvent
    \/ UpdateArtifacts
    \/ ApproveAnchor
    \/ Tick

Spec == Init /\ [][Next]_vars

(* ---------------- accounts close to the end of the counter ------------- *)

\* a chain head left behind by earlier append_event instructions
OldHead == Digest(<< <<9>>, <<10>> >>)

\* An account as create_anchor made it at time 0 and as the owner's
\* append_event instructions at time 0 have advanced it since, with its
\* counter at most NearMaxSlack below u32::MAX.
NearMaxAnchors ==
    { [ create_anchor_handler(operator, id, hs, <<9>>, operator_role,
                              Repeat("u", MAX_URI_LEN), 0).mem[1]
          EXCEPT !.event_chain_head = OldHead,
                 !.event_count = <<LIMB - 1, LIMB - 1 - d>> ] :
        operator \in Creators, id \in IncidentIds, hs \in CreateHashInputs,
        operator_role \in {0, 1, 2}, d \in 0..NearMaxSlack }

InitNearMax ==
    /\ anchors \in [IncidentIds -> {Some(a) : a \in NearMaxAnchors}]
    /\ \A id \in IncidentIds : Anchor(id).incident_id = id
    /\ clock = 0
    /\ emitted = << >>
    /\ last = NoCall
    /\ chain_log = [id \in IncidentIds |-> <<Anchor(id).event_chain_head>>]

\* behaviours from an empty ledger and from accounts close to the end
SpecFull == (Init \/ InitNearMax) /\ [][Next]_vars

(* ------------------------------- claims -------------------------------- *)

\* a step of Next that is an instruction, not a tick of the clock
IsCall == clock' = clock

\* the instruction of the step was sent to an existing account
OnAnchor == IsCall /\ last'.id \in IncidentIds /\ HasAnchor(last'.id)

RECURSIVE ChainFold(_, _)
ChainFold(head, hs) ==
    IF hs = << >> THEN head
    ELSE ChainFold(Digest(<<head, Head(hs)>>), Tail(hs))

\* C1: the chain head of every account is the fold of Digest(prev || h) over
\* the event hashes of its successful append_event and update_artifacts
\* instructions, in order, from the first event hash given at creation; with
\* no such instruction yet it is the first event hash itself.
ThmC1_ChainReplay ==
    \A id \in IncidentIds :
        HasAnchor(id) =>
            /\ chain_log[id] # << >>
            /\ Anchor(id).event_chain_head =
                   ChainFold(Head(chain_log[id]), Tail(chain_log[id]))

\* an append_event followed by an update_artifacts: N = 2
WitC1_TwoLinks ==
    \E id \in IncidentIds :
        /\ HasAnchor(id)
        /\ chain_log[id] = << <<9>>, <<10>>, <<12>> >>
        /\ Anchor(id).event_chain_head # <<9>>

\* C2: the stored bundle root of every account is the digest of its current
\* six artefact hashes in the order core, evidence, contradictions, trust
\* receipt, decisions, timeline.
ThmC2_BundleRoot ==
    \A id \in IncidentIds :
        HasAnchor(id) =>
            Anchor(id).bundle_root_hash =
                <<-1>> \o Anchor(id).incident_core_hash
                       \o Anchor(id).evidence_set_hash
                       \o Anchor(id).contradictions_hash
                       \o Anchor(id).trust_receipt_hash
                       \o Anchor(id).operator_decisions_hash
                       \o Anchor(id).timeline_hash \o <<-2>>

\* an update_artifacts that replaced the evidence hash alone
WitC2_EvidenceReplaced ==
    \E id \in IncidentIds :
        /\ HasAnchor(id)
        /\ last.op = "update_artifacts" /\ last.err = "Ok"
        /\ Anchor(id).evidence_set_hash = <<8>>
        /\ Anchor(id).incident_core_hash = <<1>>

\* C3: event_count never decreases, grows by exactly 1 on each successful
\* append_event or update_artifacts, is left alone by approve_anchor and by
\* every failed instruction, and so is 1 plus the number of successful
\* append_event and update_artifacts instructions since creation.
ThmC3_EventCount ==
    /\ [](\A id \in IncidentIds :
            HasAnchor(id) => Anchor(id).event_count = u32(Len(chain_log[id])))
    /\ [][\A id \in IncidentIds :
            HasAnchor(id) =>
                /\ HasAnchor(id)'
                /\ ~u32_lt(Anchor(id)'.event_count, Anchor(id).event_count)
                /\ IF /\ IsCall /\ last'.id = id /\ last'.err = "Ok"
                      /\ last'.op \in {"append_event", "update_artifacts"}
                   THEN checked_add_1(Anchor(id).event_count)
                            = Some(Anchor(id)'.event_count)
                   ELSE Anchor(id)'.event_count = Anchor(id).event_count]_vars

\* an approved account whose counter is 3 after two chained instructions
WitC3_CountThree ==
    \E id \in IncidentIds :
        /\ HasAnchor(id)
        /\ Anchor(id).event_count = <<0, 3>>
        /\ Anchor(id).supervisor # None

\* C4: an append_event or update_artifacts signed by a key other than the
\* account's operator fails with Unauthorized and changes no field of the
\* account, whatever the payload.
ThmC4_AuthorizationGate ==
    [][(/\ OnAnchor
        /\ last'.op \in {"append_event", "update_artifacts"}
        /\ last'.signer # Anchor(last'.id).operator)
       => (/\ last'.err = "Unauthorized"
           /\ anchors' = anchors
           /\ emitted' = emitted)]_vars

\* an update_artifacts of a stranger has been refused
WitC4_StrangerRefused ==
    /\ last.op = "update_artifacts"
    /\ last.err = "Unauthorized"
    /\ HasAnchor(last.id)
    /\ last.signer # Anchor(last.id).operator

\* C5: an instruction that returns an error leaves the stored accounts as
\* they were and emits no notification.
ThmC5_AllOrNothing ==
    [][(IsCall /\ last'.err # "Ok")
       => (anchors' = anchors /\ emitted' = emitted)]_vars

\* an append_event failed on the counter after its handler had already
\* assigned the chain head in memory, and the stored head is the old one
WitC5_OverflowRolledBack ==
    /\ last.op = "append_event"
    /\ last.err = "EventCountOverflow"
    /\ last.mem # anchors[last.id]
    /\ Anchor(last.id).event_chain_head = OldHead

\* C6: in every handler every precondition check is evaluated before the
\* first write to a field of the account, so that a handler which returns an
\* error has written nothing to the account it was given; in particular the
\* counter check comes before the assignment of event_chain_head and of the
\* artefact hashes.
CexC6_ChecksBeforeWrites ==
    [][(IsCall /\ last'.err # "Ok") => last'.mem = anchors[last'.id]]_vars

\* the update_artifacts payload has a packet URI longer than MAX_URI_LEN
UriTooLong(u) == u.packet_uri # None /\ Len(u.packet_uri[1]) > MAX_URI_LEN

NoWrap ==
    \A id \in IncidentIds :
        (HasAnchor(id) /\ HasAnchor(id)') =>
            ~u32_lt(Anchor(id)'.event_count, Anchor(id).event_count)

\* C7 as stated: with event_count at u32::MAX, every append_event and
\* update_artifacts of the operator fails with EventCountOverflow, and
\* event_count never wraps around to a smaller value.
CexC7_AlwaysOverflowError ==
    [][/\ (/\ OnAnchor
           /\ last'.op \in {"append_event", "update_artifacts"}
           /\ last'.signer = Anchor(last'.id).operator
           /\ Anchor(last'.id).event_count = U32_MAX)
          => last'.err = "EventCountOverflow"
       /\ NoWrap]_vars

\* C7 as amended: with event_count at u32::MAX, an append_event of the
\* operator fails with EventCountOverflow, and so does an update_artifacts of
\* the operator unless its packet URI is longer than MAX_URI_LEN, when it fails
\* with PacketUriTooLong; event_count never wraps around to a smaller value.
ThmC7_OverflowRefused ==
    /\ [](\A id \in IncidentIds :
            (HasAnchor(id) /\ Anchor(id).event_count = U32_MAX) =>
                /\ \A e \in EventHashInputs :
                       append_event(Anchor(id).operator, id, e, clock).err
                           = "EventCountOverflow"
                /\ \A u \in UpdateInputs, c \in ChangeEventHashInputs :
                       update_artifacts(Anchor(id).operator, id, u.hs, c,
                                        u.packet_uri, clock).err
                           = IF UriTooLong(u) THEN "PacketUriTooLong"
                             ELSE "EventCountOverflow")
    /\ [][NoWrap]_vars

\* the counter reached u32::MAX by an append_event, and the operator's next
\* update_artifacts was refused for the counter
WitC7_RefusedAtMax ==
    /\ last.op = "update_artifacts"
    /\ last.err = "EventCountOverflow"
    /\ Anchor(last.id).event_count = U32_MAX
    /\ Len(chain_log[last.id]) = 2

\* C8: approve_anchor of any signer on an account with requires_approval
\* succeeds and sets supervisor to the signer, requires_approval to false and
\* approval_timestamp and updated_at to the current time; on an account
\* without requires_approval it fails with AlreadyApproved and changes nothing.
ThmC8_Approve ==
    [][\A id \in IncidentIds :
        (OnAnchor /\ last'.id = id /\ last'.op = "approve_anchor") =>
          IF Anchor(id).requires_approval
          THEN /\ last'.err = "Ok"
               /\ HasAnchor(id)'
               /\ Anchor(id)'.supervisor = Some(last'.signer)
               /\ Anchor(id)'.requires_approval = FALSE
               /\ Anchor(id)'.approval_timestamp = Some(clock)
               /\ Anchor(id)'.updated_at = clock
          ELSE /\ last'.err = "AlreadyApproved"
               /\ anchors' = anchors
               /\ emitted' = emitted]_vars

\* an account approved at time 1 by a key that is not its operator
WitC8_ApprovedByOther ==
    /\ last.op = "approve_anchor" /\ last.err = "Ok"
    /\ Anchor(last.id).supervisor = Some(last.signer)
    /\ last.signer # Anchor(last.id).operator
    /\ Anchor(last.id).approval_timestamp = Some(1)

Approvals(id) ==
    { i \in DOMAIN emitted :
        emitted[i].type = "AnchorApproved" /\ emitted[i].incident_id = id }

\* C9: at most one approve_anchor on an account succeeds, and only on an
\* account created with requires_approval; requires_approval never turns
\* true again, and supervisor and approval_timestamp, once set, keep their
\* value.
ThmC9_ApprovedOnce ==
    /\ [](\A id \in IncidentIds :
            /\ Cardinality(Approvals(id)) <= 1
            /\ Approvals(id) # {} =>
                  \E j \in DOMAIN emitted :
                      /\ emitted[j].type = "AnchorCreated"
                      /\ emitted[j].incident_id = id
                      /\ emitted[j].operator_role = Employee)
    /\ [][\A id \in IncidentIds :
            HasAnchor(id) =>
                /\ HasAnchor(id)'
                /\ ~Anchor(id).requires_approval => ~Anchor(id)'.requires_approval
                /\ Anchor(id).supervisor # None =>
                      Anchor(id)'.supervisor = Anchor(id).supervisor
                /\ Anchor(id).approval_timestamp # None =>
                      Anchor(id)'.approval_timestamp = Anchor(id).approval_timestamp]_vars

\* a second approve_anchor, by another key, was refused on an approved account
WitC9_SecondRefused ==
    /\ last.op = "approve_anchor" /\ last.err = "AlreadyApproved"
    /\ Approvals(last.id) # {}
    /\ Anchor(last.id).supervisor # Some(last.signer)

\* C10: every account is pending (role Employee, requires_approval, no
\* supervisor, no approval_timestamp), approved (role Employee, not
\* requires_approval, supervisor and approval_timestamp set) or never in need
\* of approval (role Supervisor or Admin, not requires_approval, neither set).
ThmC10_ApprovalShapes ==
    \A id \in IncidentIds :
        HasAnchor(id) =>
            LET a == Anchor(id)
                pending  == /\ a.operator_role = Employee /\ a.requires_approval
                            /\ a.supervisor = None /\ a.approval_timestamp = None
                approved == /\ a.operator_role = Employee /\ ~a.requires_approval
                            /\ a.supervisor # None /\ a.approval_timestamp # None
                never    == /\ a.operator_role \in {1, 2} /\ ~a.requires_approval
                            /\ a.supervisor = None /\ a.approval_timestamp = None
            IN  pending \/ approved \/ never

\* an approved account of an employee that has been updated since
WitC10_ApprovedShape ==
    \E id \in IncidentIds :
        /\ HasAnchor(id)
        /\ Anchor(id).operator_role = Employee
        /\ Anchor(id).supervisor # None
        /\ last.op = "update_artifacts" /\ last.err = "Ok"

\* the six hashes of the scenario with zero-valued artefacts
ZeroHashes == <<ZeroHash, ZeroHash, ZeroHash, ZeroHash, ZeroHash, ZeroHash>>

\* C11: a successful create_anchor yields an account whose operator is the
\* signer, whose six hashes, incident id, role and packet URI are the ones
\* supplied, whose chain head is the supplied first event hash itself, whose
\* event_count is 1, whose bundle root is the digest of the six supplied
\* hashes, whose requires_approval is true exactly for the role Employee, and
\* whose supervisor and approval_timestamp are unset.
ThmC11_CreatePostcondition ==
    /\ [](\A id \in IncidentIds : ~HasAnchor(id) =>
            \A operator \in Keys, hs \in CreateHashInputs \cup {ZeroHashes},
               e \in InitialEventHashInputs \cup {<<170>>},
               operator_role \in {0, 1, 2},
               packet_uri \in {u \in UriInputs : Len(u) <= MAX_URI_LEN} :
                LET r == create_anchor(operator, id, hs, e, operator_role,
                                       packet_uri, clock)
                    a == r.mem[1]
                IN  /\ r.err = "Ok"
                    /\ r.mem # None
                    /\ a.operator = operator
                    /\ a.incident_id = id
                    /\ << a.incident_core_hash, a.evidence_set_hash,
                          a.contradictions_hash, a.trust_receipt_hash,
                          a.operator_decisions_hash, a.timeline_hash >> = hs
                    /\ a.operator_role = operator_role
                    /\ a.packet_uri = packet_uri
                    /\ a.event_chain_head = e
                    /\ a.event_count = <<0, 1>>
                    /\ a.bundle_root_hash =
                           <<-1>> \o hs[1] \o hs[2] \o hs[3] \o hs[4] \o hs[5] \o hs[6]
                                  \o <<-2>>
                    /\ a.requires_approval = (operator_role = 0)
                    /\ a.supervisor = None
                    /\ a.approval_timestamp = None)
    /\ [][\A id \in IncidentIds :
            (/\ IsCall /\ last'.id = id
             /\ last'.op = "create_anchor" /\ last'.err = "Ok") =>
                /\ ~HasAnchor(id)
                /\ anchors'[id] = last'.mem
                /\ HasAnchor(id)'
                /\ Anchor(id)'.operator = last'.signer
                /\ Anchor(id)'.event_chain_head = Head(chain_log'[id])
                /\ Len(chain_log'[id]) = 1
                /\ Anchor(id)'.event_count = <<0, 1>>]_vars

\* an account just created by an employee: pending, count 1, head the first hash
WitC11_EmployeeCreated ==
    /\ last.op = "create_anchor" /\ last.err = "Ok"
    /\ HasAnchor(last.id)
    /\ Anchor(last.id).requires_approval
    /\ Anchor(last.id).event_chain_head = <<9>>
    /\ Anchor(last.id).event_count = <<0, 1>>

\* C12: a create_anchor for an incident id that already has an account fails
\* with AnchorAlreadyExists and leaves the account as it is; at most one
\* create_anchor succeeds per incident id.
CexC12_AlreadyExistsError ==
    /\ [](\A id \in IncidentIds :
            Cardinality({ i \in DOMAIN emitted :
                            /\ emitted[i].type = "AnchorCreated"
                            /\ emitted[i].incident_id = id }) <= 1)
    /\ [][(OnAnchor /\ last'.op = "create_anchor") =>
            (/\ last'.err = "AnchorAlreadyExists"
             /\ anchors' = anchors
             /\ emitted' = emitted)]_vars

\* each hash supplied alone, the URI supplied alone, and the accepted payloads
\* of UpdateInputs: nothing supplied, and all six hashes with a URI
UpdateCases ==
    { [hs |-> Supplied({i}, <<8>>), packet_uri |-> None] : i \in 1..6 }
        \cup { [hs |-> Supplied({}, <<8>>), packet_uri |-> Some("ipfs://q")] }
        \cup { u \in UpdateInputs :
                  u.packet_uri = None \/ Len(u.packet_uri[1]) <= 200 }

SixHashes(a) ==
    << a.incident_core_hash, a.evidence_set_hash, a.contradictions_hash,
       a.trust_receipt_hash, a.operator_decisions_hash, a.timeline_hash >>

\* C13: on a successful update_artifacts each supplied hash takes the supplied
\* value and each other one keeps its value, and so for packet_uri; the bundle
\* root is recomputed over the resulting six hashes; one chain step with the
\* change event hash is applied and event_count grows by exactly 1, whether
\* one field is supplied, or all, or none.
ThmC13_UpdateMerge ==
    /\ [](\A id \in IncidentIds : HasAnchor(id) =>
            \A u \in UpdateCases, c \in ChangeEventHashInputs :
                LET a == Anchor(id)
                    hs == u.hs
                    packet_uri == u.packet_uri
                    r == update_artifacts(a.operator, id, hs, c, packet_uri, clock)
                    b == r.mem[1]
                    new == SixHashes(b)
                IN  a.event_count # U32_MAX =>
                    /\ r.err = "Ok"
                    /\ \A i \in 1..6 :
                          new[i] = IF hs[i] = None THEN SixHashes(a)[i] ELSE hs[i][1]
                    /\ b.packet_uri = IF packet_uri = None THEN a.packet_uri
                                      ELSE packet_uri[1]
                    /\ b.bundle_root_hash =
                          <<-1>> \o new[1] \o new[2] \o new[3] \o new[4] \o new[5]
                                 \o new[6] \o <<-2>>
                    /\ b.event_chain_head = <<-1>> \o a.event_chain_head \o c \o <<-2>>
                    /\ Some(b.event_count) = checked_add_1(a.event_count)
                    /\ Len(r.emit) = 1)
    /\ [][\A id \in IncidentIds :
            (/\ OnAnchor /\ last'.id = id
             /\ last'.op = "update_artifacts" /\ last'.err = "Ok") =>
                /\ anchors'[id] = last'.mem
                /\ Len(chain_log'[id]) = Len(chain_log[id]) + 1
                /\ Some(Anchor(id)'.event_count) = checked_add_1(Anchor(id).event_count)]_vars

\* an update_artifacts replaced the evidence hash and kept the other five
WitC13_OnlyEvidence ==
    /\ last.op = "update_artifacts" /\ last.err = "Ok"
    /\ HasAnchor(last.id)
    /\ SixHashes(Anchor(last.id)) = << <<1>>, <<8>>, <<3>>, <<4>>, <<5>>, <<6>> >>
    /\ Anchor(last.id).event_count = <<0, 2>>

LongUris == { u \in UriInputs : Len(u) > 200 } \cup { Repeat("w", 201) }

\* C14 as stated: every create_anchor and every update_artifacts that
\* supplies a packet URI longer than 200 fails with PacketUriTooLong, and the
\* stored packet_uri of every account has length at most 200.
CexC14_AlwaysUriError ==
    \A id \in IncidentIds :
        /\ HasAnchor(id) => Len(Anchor(id).packet_uri) <= 200
        /\ \A signer \in Keys, uri \in LongUris :
              /\ create_anchor(signer, id, ZeroHashes, <<9>>, 0, uri, clock).err
                     = "PacketUriTooLong"
              /\ HasAnchor(id) =>
                     update_artifacts(signer, id, Supplied({2}, <<8>>), <<12>>,
                                      Some(uri), clock).err = "PacketUriTooLong"

\* C14 as amended: a create_anchor for an incident id without an account, or
\* an update_artifacts of the account's operator, that supplies a packet URI
\* longer than 200 fails with PacketUriTooLong, creating no account,
\* respectively leaving the account unchanged; such a create_anchor for an id
\* that has an account and such an update_artifacts of another key fail as
\* well, at account validation; the stored packet_uri of every account has
\* length at most 200.
ThmC14_UriBound ==
    /\ [](\A id \in IncidentIds :
            /\ HasAnchor(id) => Len(Anchor(id).packet_uri) <= 200
            /\ \A signer \in Keys, uri \in LongUris, role \in {0, 1, 2} :
                  LET c == create_anchor(signer, id, ZeroHashes, <<9>>, role, uri, clock)
                  IN  /\ c.err = IF HasAnchor(id) THEN "AccountAlreadyInUse"
                                 ELSE "PacketUriTooLong"
                      /\ c.mem = anchors[id]
                      /\ c.emit = << >>
            /\ HasAnchor(id) =>
                  \A signer \in Keys, uri \in LongUris, hs \in {u.hs : u \in UpdateCases} :
                      LET u == update_artifacts(signer, id, hs, <<12>>, Some(uri), clock)
                      IN  /\ u.err = IF signer = Anchor(id).operator
                                     THEN "PacketUriTooLong" ELSE "Unauthorized"
                          /\ u.mem = anchors[id]
                          /\ u.emit = << >>)
    /\ [][(IsCall /\ last'.err = "PacketUriTooLong") =>
            (anchors' = anchors /\ emitted' = emitted)]_vars

\* the operator's update_artifacts with a URI of 201 characters was refused,
\* and the account keeps its URI of exactly 200 characters
WitC14_LongUriRefused ==
    /\ last.op = "update_artifacts" /\ last.err = "PacketUriTooLong"
    /\ HasAnchor(last.id)
    /\ last.signer = Anchor(last.id).operator
    /\ Len(Anchor(last.id).packet_uri) = 200

InvalidRoles == { r \in RoleInputs : r > 2 } \cup { 255 }

\* C15 as stated: every create_anchor whose role is none of 0, 1, 2 fails with
\* InvalidOperatorRole and creates no account, and the operator_role of every
\* account is one of 0, 1, 2.
CexC15_AlwaysRoleError ==
    \A id \in IncidentIds :
        /\ HasAnchor(id) => Anchor(id).operator_role \in {0, 1, 2}
        /\ ~HasAnchor(id) =>
              \A signer \in Keys, role \in InvalidRoles, uri \in UriInputs :
                  LET c == create_anchor(signer, id, ZeroHashes, <<9>>, role, uri, clock)
                  IN  c.err = "InvalidOperatorRole" /\ c.mem = None

\* C15 as amended: a create_anchor for an incident id without an account
\* whose role is none of 0, 1, 2 creates no account; it fails with
\* InvalidOperatorRole when its packet URI has at most 200 characters, and
\* with PacketUriTooLong, checked first, when the URI is longer; the
\* operator_role of every account is one of 0, 1, 2.
ThmC15_RoleChecked ==
    /\ [](\A id \in IncidentIds :
            /\ HasAnchor(id) => Anchor(id).operator_role \in {0, 1, 2}
            /\ ~HasAnchor(id) =>
                  \A signer \in Keys, role \in InvalidRoles, uri \in UriInputs :
                      LET c == create_anchor(signer, id, ZeroHashes, <<9>>, role, uri, clock)
                      IN  /\ c.err = IF Len(uri) > 200 THEN "PacketUriTooLong"
                                     ELSE "InvalidOperatorRole"
                          /\ c.mem = None
                          /\ c.emit = << >>)
    /\ [][(IsCall /\ last'.err = "InvalidOperatorRole") =>
            (anchors' = anchors /\ emitted' = emitted)]_vars

\* a create_anchor with role 3 was refused and the ledger is still empty
WitC15_RoleRefused ==
    /\ last.op = "create_anchor" /\ last.err = "InvalidOperatorRole"
    /\ ~HasAnchor(last.id)

\* C16: the operator, incident_id, operator_role and created_at of an account
\* keep their creation values across every later append_event,
\* update_artifacts and approve_anchor, successful or not, of any signer.
ThmC16_ImmutableFields ==
    [][\A id \in IncidentIds :
        HasAnchor(id) =>
            /\ HasAnchor(id)'
            /\ Anchor(id)'.operator = Anchor(id).operator
            /\ Anchor(id)'.incident_id = Anchor(id).incident_id
            /\ Anchor(id)'.operator_role = Anchor(id).operator_role
            /\ Anchor(id)'.created_at = Anchor(id).created_at
            /\ Anchor(id).incident_id = id]_vars

\* an account created at time 0 by opA, approved by opB and updated at time 1
WitC16_LaterStillSame ==
    \E id \in IncidentIds :
        /\ HasAnchor(id)
        /\ Anchor(id).operator = "opA"
        /\ Anchor(id).supervisor = Some("opB")
        /\ Anchor(id).created_at = 0
        /\ Anchor(id).updated_at = 1
        /\ Anchor(id).event_count = <<0, 3>>

\* C17 as stated: every successful instruction on an existing account that
\* changes the account (append_event, update_artifacts, approve_anchor)
\* advances event_chain_head by one chain step and event_count by 1; none
\* changes the account and leaves event_chain_head and event_count alone.
CexC17_EveryChangeChained ==
    [][\A id \in IncidentIds :
        (/\ HasAnchor(id) /\ IsCall /\ last'.id = id /\ last'.err = "Ok"
         /\ Anchor(id)' # Anchor(id))
        => (/\ Len(chain_log'[id]) = Len(chain_log[id]) + 1
            /\ Anchor(id)'.event_chain_head =
                   Digest(<< Anchor(id).event_chain_head,
                             chain_log'[id][Len(chain_log'[id])] >>)
            /\ checked_add_1(Anchor(id).event_count)
                   = Some(Anchor(id)'.event_count))]_vars

\* C17: every successful append_event and update_artifacts advances
\* event_chain_head by one chain step over its event hash and event_count by
\* 1; a successful approve_anchor changes the account (supervisor,
\* requires_approval, approval_timestamp, updated_at) and is not bound into
\* the chain: it leaves event_chain_head and event_count as they were, and it
\* is the only successful instruction that does.
ThmC17_ArtifactChangesChained ==
    [][\A id \in IncidentIds :
        (HasAnchor(id) /\ IsCall /\ last'.id = id /\ last'.err = "Ok")
        => IF last'.op \in {"append_event", "update_artifacts"}
           THEN /\ Len(chain_log'[id]) = Len(chain_log[id]) + 1
                /\ Anchor(id)'.event_chain_head =
                       Digest(<< Anchor(id).event_chain_head,
                                 chain_log'[id][Len(chain_log'[id])] >>)
                /\ checked_add_1(Anchor(id).event_count)
                       = Some(Anchor(id)'.event_count)
           ELSE /\ last'.op = "approve_anchor"
                /\ Anchor(id)' # Anchor(id)
                /\ Anchor(id)'.requires_approval # Anchor(id).requires_approval
                /\ Anchor(id)'.event_chain_head = Anchor(id).event_chain_head
                /\ Anchor(id)'.event_count = Anchor(id).event_count
                /\ chain_log'[id] = chain_log[id]]_vars

\* an approval just went through on an account whose chain already has a
\* link after the first one
WitC17_ApprovedAfterLink ==
    \E id \in IncidentIds :
        /\ HasAnchor(id)
        /\ last.op = "approve_anchor" /\ last.err = "Ok" /\ last.id = id
        /\ Anchor(id).event_count = <<0, 2>>
        /\ Len(chain_log[id]) = 2
        /\ ~Anchor(id).requires_approval

\* the creation and update notifications of an incident, in emission order
RootNotes(id) ==
    SelectSeq(emitted, LAMBDA e : /\ e.incident_id = id
                                  /\ e.type \in {"AnchorCreated", "ArtifactsUpdated"})

\* the bundle root a creation or update notification announces
NotedRoot(e) ==
    IF e.type = "AnchorCreated" THEN e.bundle_root_hash ELSE e.new_bundle_root

\* C18: every successful update_artifacts emits exactly one ArtifactsUpdated
\* whose old root is the bundle root stored before the instruction and whose
\* new root is the one stored after it; so in an incident's notification
\* sequence the first root notification is the creation, each update's old
\* root is the root the preceding notification announced, and the last
\* announced root is the stored bundle_root_hash.
ThmC18_RootsRecoverable ==
    /\ [](\A id \in IncidentIds :
            HasAnchor(id) =>
                LET ns == RootNotes(id)
                IN  /\ Len(ns) >= 1
                    /\ ns[1].type = "AnchorCreated"
                    /\ \A i \in 2..Len(ns) :
                          /\ ns[i].type = "ArtifactsUpdated"
                          /\ ns[i].old_bundle_root = NotedRoot(ns[i - 1])
                    /\ NotedRoot(ns[Len(ns)]) = Anchor(id).bundle_root_hash)
    /\ [][\A id \in IncidentIds :
            (/\ HasAnchor(id) /\ IsCall /\ last'.id = id
             /\ last'.op = "update_artifacts" /\ last'.err = "Ok")
            => (/\ Len(emitted') = Len(emitted) + 1
                /\ SubSeq(emitted', 1, Len(emitted)) = emitted
                /\ LET e == emitted'[Len(emitted')]
                   IN  /\ e.type = "ArtifactsUpdated"
                       /\ e.incident_id = id
                       /\ e.old_bundle_root = Anchor(id).bundle_root_hash
                       /\ e.new_bundle_root = Anchor(id)'.bundle_root_hash)]_vars

\* two updates were notified after the creation, each with a new root
WitC18_TwoRootChanges ==
    \E id \in IncidentIds :
        /\ HasAnchor(id)
        /\ Len(RootNotes(id)) = 3
        /\ RootNotes(id)[2].old_bundle_root # RootNotes(id)[2].new_bundle_root
        /\ RootNotes(id)[3].old_bundle_root # RootNotes(id)[3].new_bundle_root
        /\ RootNotes(id)[3].old_bundle_root # RootNotes(id)[1].bundle_root_hash

\* the account with its approval flag the other way round
OtherApprovalState(a) == [a EXCEPT !.requires_approval = ~@]

\* C19: the owner's append_event and update_artifacts are not gated on
\* approval: on every account whose counter is below the maximum they
\* succeed (update_artifacts unless its URI is too long), pending or not,
\* and the handlers compute the same result, up to the flag itself, on the
\* account with the flag the other way round; no instruction ever returns
\* RequiresApproval or NotSupervisorOrAdmin.
ThmC19_NotGatedOnApproval ==
    /\ last.err \notin {"RequiresApproval", "NotSupervisorOrAdmin"}
    /\ \A id \in IncidentIds :
          HasAnchor(id) =>
            LET a == Anchor(id)
                b == OtherApprovalState(a)
            IN  /\ \A h \in EventHashInputs :
                      LET ra == append_event(a.operator, id, h, clock)
                          rb == append_event_handler(b, h, clock)
                      IN  /\ ra.err = "Ok"
                          /\ rb.err = ra.err
                          /\ rb.emit = ra.emit
                          /\ rb.mem = Some(OtherApprovalState(ra.mem[1]))
                /\ \A u \in UpdateInputs, h \in ChangeEventHashInputs :
                      LET ra == update_artifacts(a.operator, id, u.hs, h,
                                                 u.packet_uri, clock)
                          rb == update_artifacts_handler(b, a.operator, u.hs, h,
                                                         u.packet_uri, clock)
                      IN  /\ ra.err = IF u.packet_uri # None
                                         /\ Len(u.packet_uri[1]) > 200
                                      THEN "PacketUriTooLong" ELSE "Ok"
                          /\ rb.err = ra.err
                          /\ rb.emit = ra.emit
                          /\ rb.mem = Some(OtherApprovalState(ra.mem[1]))

\* the owner has appended and updated while the account still awaits approval
WitC19_ChangedWhilePending ==
    \E id \in IncidentIds :
        /\ HasAnchor(id)
        /\ Anchor(id).requires_approval
        /\ last.op = "update_artifacts" /\ last.err = "Ok"
        /\ last.signer = Anchor(id).operator
        /\ Len(chain_log[id]) = 3
        /\ chain_log[id][2] \in EventHashInputs
        /\ chain_log[id][3] \in ChangeEventHashInputs

\* the account with updated_at and the time of approval blanked
SansTimestamps(a) ==
    [a EXCEPT !.updated_at = 0,
              !.approval_timestamp = IF @ = None THEN None ELSE Some(0)]

\* the account with its approval metadata taken from b
WithApprovalOf(a, b) ==
    [a EXCEPT !.supervisor         = b.supervisor,
              !.requires_approval  = b.requires_approval,
              !.approval_timestamp = b.approval_timestamp,
              !.updated_at         = b.updated_at]

\* C20: a successful approve_anchor changes only supervisor,
\* requires_approval, approval_timestamp and updated_at: the six artifact
\* hashes, bundle_root_hash, event_chain_head, event_count and packet_uri
\* (and every other field) stay as they were; so on every pending account
\* approve_anchor followed by the owner's append_event or update_artifacts
\* gives the same account, timestamps apart, as the two in the other order.
ThmC20_ApproveFrame ==
    /\ [][\A id \in IncidentIds :
            (/\ HasAnchor(id) /\ IsCall /\ last'.id = id
             /\ last'.op = "approve_anchor" /\ last'.err = "Ok")
            => /\ WithApprovalOf(Anchor(id)', Anchor(id)) = Anchor(id)
               /\ Anchor(id)' # Anchor(id)]_vars
    /\ [](\A id \in IncidentIds :
            (HasAnchor(id) /\ Anchor(id).requires_approval) =>
              LET a == Anchor(id)
              IN  \A p \in Keys, t1 \in 0..MaxClock, t2 \in 0..MaxClock :
                    LET ap == approve_anchor_handler(a, p, t1)
                    IN  /\ ap.err = "Ok"
                        /\ \A h \in EventHashInputs :
                              LET x == append_event_handler(ap.mem[1], h, t2)
                                  y == append_event_handler(a, h, t1)
                                  z == approve_anchor_handler(y.mem[1], p, t2)
                              IN  /\ x.err = "Ok" /\ y.err = "Ok" /\ z.err = "Ok"
                                  /\ SansTimestamps(x.mem[1])
                                         = SansTimestamps(z.mem[1])
                        /\ \A u \in UpdateInputs, h \in ChangeEventHashInputs :
                              LET x == update_artifacts_handler(ap.mem[1],
                                           a.operator, u.hs, h, u.packet_uri, t2)
                                  y == update_artifacts_handler(a,
                                           a.operator, u.hs, h, u.packet_uri, t1)
                                  z == approve_anchor_handler(y.mem[1], p, t2)
                              IN  /\ x.err = y.err
                                  /\ y.err = "Ok" =>
                                       /\ z.err = "Ok"
                                       /\ SansTimestamps(x.mem[1])
                                              = SansTimestamps(z.mem[1]))

\* the owner's append went through on an account approved just before
WitC20_AppendAfterApprove ==
    \E id \in IncidentIds :
        /\ HasAnchor(id)
        /\ last.op = "append_event" /\ last.err = "Ok" /\ last.id = id
        /\ Anchor(id).supervisor = Some("opB")
        /\ Anchor(id).event_count = <<0, 2>>
        /\ emitted[Len(emitted) - 1].type = "AnchorApproved"

====
